---- MODULE Spec2Model ----
(***************************************************************************)
(* A model of src/app.py: the Flask fitness/meal log.  The state is the    *)
(* two tables (Workout, Meal), the id sequences of the tables, the UTC     *)
(* clock and the response of the latest request.  Every route handler is   *)
(* one action; a handler runs as one transaction (a single commit).        *)
(*                                                                         *)
(* Python values are modelled as follows.                                  *)
(*   str            a sequence of one-character strings, <<"R","o","w">>   *)
(*   None / value   None == <<>>, a present value v is Some(v) == <<v>>    *)
(*   datetime       whole seconds (the sub-second part is dropped by       *)
(*                  int(td.total_seconds()) before anything reads it)      *)
(*   dict           a sequence of <<key, value>> pairs in insertion order  *)
(***************************************************************************)
EXTENDS Integers, Sequences, FiniteSets, TLC

VARIABLES
    workouts,        \* table workout: id -> [exercise_name, reps, timestamp]
    meals,           \* table meal: id -> [name, component1..5, calories, timestamp]
    nextWorkoutId,   \* the sequence behind Workout.id
    nextMealId,      \* the sequence behind Meal.id
    now,             \* datetime.utcnow(), in seconds
    server_tz,       \* UTC offset of the process's local zone (date.today())
    req,             \* the request being served: [route, id, form]
    resp,            \* its response: [status, to]
    view,            \* the context index() hands to render_template
    td,              \* format_timedelta: the argument (None or seconds)
    formatted        \* format_timedelta: the string returned

vars == <<workouts, meals, nextWorkoutId, nextMealId, now, server_tz, req, resp, view,
          td, formatted>>

----------------------------------------------------------------------------
(* Python values *)

None == <<>>
Some(v) == <<v>>

\* `if x` for x a str or None: None and '' are falsy
truthy(x) == x # None /\ x[1] # <<>>

DecimalChars == {"0", "1", "2", "3", "4", "5", "6", "7", "8", "9"}

\* characters str.isdigit() accepts and int() rejects (Numeric_Type=Digit,
\* not Decimal); "sup2" stands for U+00B2, SUPERSCRIPT TWO
SuperscriptChars == {"sup2"}

DigitValue ==
    ("0" :> 0) @@ ("1" :> 1) @@ ("2" :> 2) @@ ("3" :> 3) @@ ("4" :> 4) @@
    ("5" :> 5) @@ ("6" :> 6) @@ ("7" :> 7) @@ ("8" :> 8) @@ ("9" :> 9)

\* str.isdigit(): non-empty and every character is a digit
isdigit(s) ==
    /\ Len(s) > 0
    /\ \A i \in 1..Len(s) : s[i] \in DecimalChars \cup SuperscriptChars

\* int(s) raises ValueError unless every character is a decimal digit
\* (only called on strings that passed isdigit())
int_raises(s) == \E i \in 1..Len(s) : s[i] \notin DecimalChars

RECURSIVE int(_)
int(s) ==
    IF s = <<>> THEN 0
    ELSE int(SubSeq(s, 1, Len(s) - 1)) * 10 + DigitValue[s[Len(s)]]

\* str(n) for n >= 0
RECURSIVE str(_)
str(n) ==
    LET d == CHOOSE c \in DecimalChars : DigitValue[c] = n % 10
    IN IF n < 10 THEN <<d>> ELSE str(n \div 10) \o <<d>>

\* code points of the characters used in names
ord ==
    ("R" :> 82) @@ ("S" :> 83) @@ ("a" :> 97) @@ ("o" :> 111) @@
    ("q" :> 113) @@ ("t" :> 116) @@ ("u" :> 117) @@ ("w" :> 119)

\* a < b on str: lexicographic by code point
RECURSIVE StrLess(_, _)
StrLess(a, b) ==
    IF a = <<>> THEN b # <<>>
    ELSE IF b = <<>> THEN FALSE
    ELSE IF ord[a[1]] # ord[b[1]] THEN ord[a[1]] < ord[b[1]]
    ELSE StrLess(Tail(a), Tail(b))

----------------------------------------------------------------------------
(* Responses *)

\* a request: the route, the id in the URL (0 when the route has none) and
\* the form (<<>> for a GET)
Request(route, id, form) == [route |-> route, id |-> id, form |-> form]

\* redirect(url_for('index'))
redirect == [status |-> "redirect", to |-> "index"]

\* render_template(template, ...)
render_template(template) == [status |-> "render", to |-> template]

\* an exception leaves the handler: Flask answers 500 and the request's
\* session is removed, which rolls its transaction back
raises(exception) == [status |-> "error", to |-> exception]

\* between requests
NoRequest == Request("none", 0, <<>>)
NoResponse == [status |-> "none", to |-> "none"]

NoView ==
    [workouts |-> <<>>, sorted_summary |-> <<>>, chart_labels |-> <<>>,
     chart_data |-> <<>>, meals_with_fasting_time |-> <<>>]

WorkoutFrame == UNCHANGED <<meals, nextMealId, now, server_tz, td, formatted>>
MealFrame == UNCHANGED <<workouts, nextWorkoutId, now, server_tz, td, formatted>>

\* mutant: a row is found for an id that has none
session_get_first(table, id) ==
    IF id \in DOMAIN table THEN Some(id)
    ELSE IF DOMAIN table # {} THEN Some(CHOOSE key \in DOMAIN table : TRUE)
    ELSE None

\* db.session.get(Model, id): the primary key of the object found, or None
session_get(table, id) == IF id \in DOMAIN table THEN Some(id) ELSE None

----------------------------------------------------------------------------
(* Workout routes *)

\* Workout(exercise_name=..., reps=...); timestamp defaults to utcnow()
Workout(exercise_name, reps) ==
    [exercise_name |-> exercise_name, reps |-> reps, timestamp |-> now]

\* POST /add_workout
add_workout(form) ==
    LET exercise_name == form.exercise_name
        reps_str == form.reps
    IN
    /\ IF truthy(exercise_name) /\ truthy(reps_str) /\ isdigit(reps_str[1])
       THEN IF int_raises(reps_str[1])
            THEN /\ UNCHANGED <<workouts, nextWorkoutId>>
                 /\ resp' = raises("ValueError")
            ELSE /\ workouts' = (nextWorkoutId :> Workout(exercise_name[1], int(reps_str[1])))
                                @@ workouts
                 /\ nextWorkoutId' = nextWorkoutId + 1
                 /\ resp' = redirect
       ELSE /\ UNCHANGED <<workouts, nextWorkoutId>>
            /\ resp' = redirect
    /\ req' = Request("add_workout", 0, form)
    /\ view' = NoView
    /\ WorkoutFrame

\* GET /edit_workout/<id>
edit_workout(workout_id) ==
    /\ resp' = IF session_get(workouts, workout_id) # None
               THEN render_template("edit_workout.html")
               ELSE redirect
    /\ req' = Request("edit_workout", workout_id, <<>>)
    /\ view' = NoView
    /\ UNCHANGED <<workouts, nextWorkoutId>>
    /\ WorkoutFrame

\* POST /update_workout/<id>.  exercise_name is NOT NULL: committing None
\* raises IntegrityError and nothing is stored.
update_workout(workout_id, form) ==
    LET exercise_name == form.exercise_name
        reps_str == form.reps
        key == session_get(workouts, workout_id)
        workout == workouts[key[1]]
    IN
    /\ IF key # None
       THEN IF truthy(reps_str) /\ isdigit(reps_str[1]) /\ int_raises(reps_str[1])
            THEN /\ UNCHANGED workouts
                 /\ resp' = raises("ValueError")
            ELSE IF exercise_name = None
            THEN /\ UNCHANGED workouts
                 /\ resp' = raises("IntegrityError")
            ELSE /\ workouts' =
                      [workouts EXCEPT ![key[1]] =
                          [exercise_name |-> exercise_name[1],
                           reps |-> IF truthy(reps_str) /\ isdigit(reps_str[1])
                                    THEN int(reps_str[1]) ELSE workout.reps,
                           timestamp |-> workout.timestamp]]
                 /\ resp' = redirect
       ELSE /\ UNCHANGED workouts
            /\ resp' = redirect
    /\ req' = Request("update_workout", workout_id, form)
    /\ view' = NoView
    /\ UNCHANGED nextWorkoutId
    /\ WorkoutFrame

\* GET /delete_workout/<id>
delete_workout(workout_id) ==
    /\ LET workout == session_get(workouts, workout_id)
       IN workouts' = IF workout # None
                  THEN [i \in DOMAIN workouts \ {workout[1]} |-> workouts[i]]
                  ELSE workouts
    /\ resp' = redirect
    /\ req' = Request("delete_workout", workout_id, <<>>)
    /\ view' = NoView
    /\ UNCHANGED nextWorkoutId
    /\ WorkoutFrame

----------------------------------------------------------------------------
(* Meal routes *)

\* int(calories) if calories and calories.isdigit() else None
parse_calories(calories) ==
    IF truthy(calories) /\ isdigit(calories[1]) THEN Some(int(calories[1])) ELSE None

calories_raises(calories) ==
    truthy(calories) /\ isdigit(calories[1]) /\ int_raises(calories[1])

\* mutant: component1 and component2 change places
Meal_swapped(name, form, timestamp) ==
    [name |-> name,
     component1 |-> form.component2, component2 |-> form.component1,
     component3 |-> form.component3, component4 |-> form.component4,
     component5 |-> form.component5,
     calories |-> parse_calories(form.calories),
     timestamp |-> timestamp]

\* Meal(name=..., component1..5=..., calories=...); timestamp defaults to
\* utcnow().  The name is a str; the other columns are nullable.
Meal(name, form, timestamp) ==
    [name |-> name,
     component1 |-> form.component1, component2 |-> form.component2,
     component3 |-> form.component3, component4 |-> form.component4,
     component5 |-> form.component5,
     calories |-> parse_calories(form.calories),
     timestamp |-> timestamp]

\* POST /add_meal
add_meal(form) ==
    LET name == form.meal_name
        calories == form.calories
    IN
    /\ IF truthy(name)
       THEN IF calories_raises(calories)
            THEN /\ UNCHANGED <<meals, nextMealId>>
                 /\ resp' = raises("ValueError")
            ELSE /\ meals' = (nextMealId :> Meal(name[1], form, now)) @@ meals
                 /\ nextMealId' = nextMealId + 1
                 /\ resp' = redirect
       ELSE /\ UNCHANGED <<meals, nextMealId>>
            /\ resp' = redirect
    /\ req' = Request("add_meal", 0, form)
    /\ view' = NoView
    /\ MealFrame

\* GET /edit_meal/<id>
edit_meal(meal_id) ==
    /\ resp' = IF session_get(meals, meal_id) # None
               THEN render_template("edit_meal.html")
               ELSE redirect
    /\ req' = Request("edit_meal", meal_id, <<>>)
    /\ view' = NoView
    /\ UNCHANGED <<meals, nextMealId>>
    /\ MealFrame

\* POST /update_meal/<id>.  name is NOT NULL: committing None raises
\* IntegrityError and nothing is stored.
update_meal(meal_id, form) ==
    LET name == form.meal_name
        calories == form.calories
        key == session_get(meals, meal_id)
        meal == meals[key[1]]
    IN
    /\ IF key # None
       THEN IF calories_raises(calories)
            THEN /\ UNCHANGED meals
                 /\ resp' = raises("ValueError")
            ELSE IF name = None
            THEN /\ UNCHANGED meals
                 /\ resp' = raises("IntegrityError")
            ELSE /\ meals' = [meals EXCEPT ![key[1]] = Meal(name[1], form, meal.timestamp)]
                 /\ resp' = redirect
       ELSE /\ UNCHANGED meals
            /\ resp' = redirect
    /\ req' = Request("update_meal", meal_id, form)
    /\ view' = NoView
    /\ UNCHANGED nextMealId
    /\ MealFrame

\* GET /delete_meal/<id>
delete_meal(meal_id) ==
    /\ LET meal == session_get(meals, meal_id)
       IN meals' = IF meal # None
                  THEN [i \in DOMAIN meals \ {meal[1]} |-> meals[i]]
                  ELSE meals
    /\ resp' = redirect
    /\ req' = Request("delete_meal", meal_id, <<>>)
    /\ view' = NoView
    /\ UNCHANGED nextMealId
    /\ MealFrame

----------------------------------------------------------------------------
(* format_timedelta *)

SecondsPerDay == 86400
SecondsPerHour == 3600
SecondsPerMinute == 60

\* divmod(a, b) for b > 0
divmod(a, b) == <<a \div b, a % b>>

td_days(total_seconds) == divmod(total_seconds, SecondsPerDay)[1]

td_hours(total_seconds) ==
    divmod(divmod(total_seconds, SecondsPerDay)[2], SecondsPerHour)[1]

\* mutant: the minutes rounded to the nearest
td_minutes_rounded(total_seconds) ==
    LET remainder == divmod(divmod(total_seconds, SecondsPerDay)[2], SecondsPerHour)[2]
    IN divmod(remainder + 30, SecondsPerMinute)[1]

td_minutes(total_seconds) ==
    LET remainder == divmod(divmod(total_seconds, SecondsPerDay)[2], SecondsPerHour)[2]
    IN divmod(remainder, SecondsPerMinute)[1]

\* f"{days}d {hours}h {minutes}m" if days > 0 else f"{hours}h {minutes}m"
format_timedelta(t) ==
    IF t = None THEN <<"N", "/", "A">>
    ELSE LET total_seconds == t[1]
             days == td_days(total_seconds)
             hours == td_hours(total_seconds)
             minutes == td_minutes(total_seconds)
         IN IF days > 0
            THEN str(days) \o <<"d", " ">> \o str(hours) \o <<"h", " ">>
                 \o str(minutes) \o <<"m">>
            ELSE str(hours) \o <<"h", " ">> \o str(minutes) \o <<"m">>

----------------------------------------------------------------------------
(* GET / *)

\* pytz.timezone('Asia/Yerevan'): UTC+04:00, no daylight saving since 2012
YerevanUtcOffset == 14400

\* timestamp.replace(tzinfo=pytz.utc).astimezone(YEREVAN_TZ): the same instant,
\* as a wall-clock reading with its offset
astimezone(timestamp) ==
    [wall |-> timestamp + YerevanUtcOffset, utcoffset |-> YerevanUtcOffset]

\* datetime.date(): the calendar day of the wall-clock reading
date(dt) == dt.wall \div SecondsPerDay

\* date.today(): the calendar day in the process's local zone
date_today == (now + server_tz) \div SecondsPerDay

\* (a - b).total_seconds() for two aware datetimes: the instants' difference
total_seconds(a, b) == (a.wall - a.utcoffset) - (b.wall - b.utcoffset)

\* the orders a set of ids can be listed in
RECURSIVE Orders(_)
Orders(ids) ==
    IF ids = {} THEN {<<>>}
    ELSE UNION {{<<id>> \o rest : rest \in Orders(ids \ {id})} : id \in ids}

\* Query.order_by(timestamp).all(): the orders of the ids the database may
\* return; rows of equal timestamp come in any order
order_by(table, desc) ==
    {s \in Orders(DOMAIN table) :
        \A i \in 1..(Len(s) - 1) :
            IF desc
            THEN table[s[i]].timestamp >= table[s[i + 1]].timestamp
            ELSE table[s[i]].timestamp <= table[s[i + 1]].timestamp}

\* the loaded objects, their timestamp attribute overwritten by the local one
loaded(table, ids) ==
    [i \in 1..Len(ids) |->
        [table[ids[i]] EXCEPT !.timestamp = astimezone(table[ids[i]].timestamp)]
        @@ [id |-> ids[i]]]

\* mutant: workout_summary[key] = value
dict_assign(d, key, value) ==
    IF \E i \in 1..Len(d) : d[i][1] = key
    THEN [i \in 1..Len(d) |-> IF d[i][1] = key THEN <<key, value>> ELSE d[i]]
    ELSE Append(d, <<key, value>>)

\* workout_summary[key] += value on a defaultdict(int)
dict_add(d, key, value) ==
    IF \E i \in 1..Len(d) : d[i][1] = key
    THEN [i \in 1..Len(d) |-> IF d[i][1] = key THEN <<key, d[i][2] + value>> ELSE d[i]]
    ELSE Append(d, <<key, value>>)

\* for workout in todays_workouts: workout_summary[workout.exercise_name] += workout.reps
RECURSIVE workout_summary(_)
workout_summary(todays_workouts) ==
    IF todays_workouts = <<>> THEN <<>>
    ELSE LET n == Len(todays_workouts)
         IN dict_add(workout_summary(SubSeq(todays_workouts, 1, n - 1)),
                     todays_workouts[n].exercise_name, todays_workouts[n].reps)

\* one step of the sort: item goes after the items whose key is not greater
insort(s, item) ==
    LET k == Cardinality({i \in 1..Len(s) : ~StrLess(item[1], s[i][1])})
    IN SubSeq(s, 1, k) \o <<item>> \o SubSeq(s, k + 1, Len(s))

\* mutant: the items in insertion order
sorted_unsorted(items) == items

\* sorted(items, key=lambda item: item[0])
RECURSIVE sorted(_)
sorted(items) ==
    IF items = <<>> THEN <<>>
    ELSE insort(sorted(SubSeq(items, 1, Len(items) - 1)), items[Len(items)])

\* the fasted_time of meals_asc[i] (1-based): None for the first meal
fasted_time(meals_asc, i) ==
    IF i > 1
    THEN Some(format_timedelta(
             Some(total_seconds(meals_asc[i].timestamp, meals_asc[i - 1].timestamp))))
    ELSE None

\* mutant: the list left in ascending order
reverse_missing(s) == s

\* list.reverse()
reverse(s) == [i \in 1..Len(s) |-> s[Len(s) + 1 - i]]

\* the context of render_template('index.html', ...)
index_view(workout_ids, meal_ids) ==
    LET all_workouts == loaded(workouts, workout_ids)
        today == date_today
        todays_workouts == SelectSeq(all_workouts, LAMBDA w : date(w.timestamp) = today)
        summary == workout_summary(todays_workouts)
        meals_asc == loaded(meals, meal_ids)
        annotated == [i \in 1..Len(meals_asc) |->
                         [meal |-> meals_asc[i], fasted_time |-> fasted_time(meals_asc, i)]]
    IN [workouts |-> all_workouts,
        sorted_summary |-> sorted(summary),
        chart_labels |-> [i \in 1..Len(summary) |-> summary[i][1]],
        chart_data |-> [i \in 1..Len(summary) |-> summary[i][2]],
        meals_with_fasting_time |-> reverse(annotated)]

\* mutant: the overwritten timestamps are committed
committed(table, objects) ==
    [id \in DOMAIN table |->
        LET object == CHOOSE o \in {objects[i] : i \in 1..Len(objects)} : o.id = id
        IN [table[id] EXCEPT !.timestamp = object.timestamp.wall]]

\* What a request that ends without db.session.commit() leaves in a table:
\* the attributes it overwrote on the loaded objects are pending changes of
\* the request's session, rolled back when the session is removed.
uncommitted(table, objects) == table

\* GET /
index ==
    \E workout_ids \in order_by(workouts, TRUE), meal_ids \in order_by(meals, FALSE) :
        /\ view' = index_view(workout_ids, meal_ids)
        /\ req' = Request("index", 0, <<>>)
        /\ resp' = render_template("index.html")
        /\ workouts' = uncommitted(workouts, loaded(workouts, workout_ids))
        /\ meals' = uncommitted(meals, loaded(meals, meal_ids))
        /\ UNCHANGED <<nextWorkoutId, nextMealId, now, server_tz, td, formatted>>

----------------------------------------------------------------------------
(* Time and the specifications *)

\* datetime.utcnow() advances between requests
Tick(step) ==
    /\ now' = now + step
    /\ req' = NoRequest
    /\ resp' = NoResponse
    /\ view' = NoView
    /\ UNCHANGED <<workouts, meals, nextWorkoutId, nextMealId, server_tz, td, formatted>>

InitTables ==
    /\ workouts = <<>>
    /\ meals = <<>>
    /\ nextWorkoutId = 1
    /\ nextMealId = 1
    /\ req = NoRequest
    /\ resp = NoResponse
    /\ view = NoView

InitStore ==
    /\ td = None
    /\ formatted = None
    /\ InitTables

str_Row == <<"R", "o", "w">>
str_Squat == <<"S", "q", "u", "a", "t">>

str_Soup == <<"S", "o", "u", "p">>
str_egg == <<"e", "g", "g">>
str_rice == <<"r", "i", "c", "e">>

----------------------------------------------------------------------------
(* Spec: every route of both tables, over forms of every validity class *)

\* rows inserted in a run, both tables together
MaxCreates == 2
ClockHours == 10

\* the ids requests name: each is unknown until it is assigned, and again
\* once its row is deleted
Ids == 1..MaxCreates

Created == (nextWorkoutId - 1) + (nextMealId - 1)

\* the form of the workout pages: the handlers read exercise_name and reps
\* and never the sets field
WorkoutFormSets(exercise_name, sets, reps) ==
    [exercise_name |-> exercise_name, reps |-> reps, sets |-> sets]

WorkoutForm(exercise_name, reps) == WorkoutFormSets(exercise_name, Some(<<"5">>), reps)

\* forms of every class the handlers tell apart: the name absent, empty or
\* given; reps absent, empty, not digits, digits int() rejects, zero, positive
WorkoutForms ==
    {WorkoutForm(Some(str_Row), Some(<<"1", "2">>)),
     WorkoutForm(Some(str_Row), Some(<<"0">>)),
     WorkoutForm(Some(str_Row), None),
     WorkoutForm(Some(str_Row), Some(<<>>)),
     WorkoutForm(Some(str_Row), Some(<<"1", "x">>)),
     WorkoutForm(Some(str_Row), Some(<<"sup2">>)),
     WorkoutForm(None, Some(<<"1", "2">>)),
     WorkoutForm(None, Some(<<"sup2">>)),
     WorkoutForm(Some(<<>>), Some(<<"1", "2">>))}

NoComponents ==
    [component1 |-> None, component2 |-> None, component3 |-> None,
     component4 |-> None, component5 |-> None]

SomeComponents ==
    [component1 |-> Some(str_egg), component2 |-> Some(<<>>), component3 |-> None,
     component4 |-> Some(str_rice), component5 |-> Some(str_egg)]

MealForm(meal_name, calories, components) ==
    [meal_name |-> meal_name, calories |-> calories] @@ components

\* the name absent, empty or given; calories absent, not digits, digits int()
\* rejects, zero, positive
MealForms ==
    {MealForm(Some(str_Soup), Some(<<"3", "5">>), SomeComponents),
     MealForm(Some(str_Soup), Some(<<"0">>), NoComponents),
     MealForm(Some(str_Soup), None, NoComponents),
     MealForm(Some(str_Soup), Some(<<"x">>), SomeComponents),
     MealForm(Some(str_Soup), Some(<<"sup2">>), NoComponents),
     MealForm(None, Some(<<"3", "5">>), SomeComponents),
     MealForm(None, Some(<<"sup2">>), NoComponents),
     MealForm(Some(<<>>), Some(<<"3", "5">>), SomeComponents)}

Init ==
    /\ InitStore
    /\ now = 0
    /\ server_tz = 0

Next ==
    \/ Created < MaxCreates /\ \E form \in WorkoutForms : add_workout(form)
    \/ \E id \in Ids : edit_workout(id)
    \/ \E id \in Ids, form \in WorkoutForms : update_workout(id, form)
    \/ \E id \in Ids : delete_workout(id)
    \/ Created < MaxCreates /\ \E form \in MealForms : add_meal(form)
    \/ \E id \in Ids : edit_meal(id)
    \/ \E id \in Ids, form \in MealForms : update_meal(id, form)
    \/ \E id \in Ids : delete_meal(id)
    \/ index
    \/ now + 10 * SecondsPerHour <= ClockHours * SecondsPerHour
       /\ Tick(10 * SecondsPerHour)

Spec == Init /\ [][Next]_vars

----------------------------------------------------------------------------
(* Claims about the store, checked under Spec *)

\* a step that serves a request (the clock stands still while one runs)
RequestStep == now' = now

\* the string is one or more of the characters 0..9
DecimalString(x) ==
    x # None /\ x[1] # <<>> /\ \A i \in 1..Len(x[1]) : x[1][i] \in DecimalChars

\* a decimal string without its leading zeros ("007" -> "7", "0" -> "0")
RECURSIVE StripZeros(_)
StripZeros(s) == IF Len(s) > 1 /\ s[1] = "0" THEN StripZeros(Tail(s)) ELSE s

\* C4: after any sequence of add_workout, update_workout and delete_workout
\* requests every stored workout has reps > 0 (the table has no sets column,
\* so the claim's sets >= 1 has nothing to speak of).
C4_RepsPositive == \A id \in DOMAIN workouts : workouts[id].reps > 0

\* C5: after any sequence of add_meal, update_meal and delete_meal requests
\* every stored meal has a non-empty name and calories absent or >= 0.
C5_MealInvariant ==
    \A id \in DOMAIN meals :
        /\ meals[id].name # <<>>
        /\ meals[id].calories = None \/ meals[id].calories[1] >= 0

\* C6: edit, update and delete of an id that is not in the store redirect to
\* the index and leave both tables as they were; after a delete the id is
\* not in the store, so a second delete of it is one of these no-ops.
C6_UnknownIdNoOp ==
    [][RequestStep =>
          /\ (/\ req'.route \in {"edit_workout", "update_workout", "delete_workout"}
              /\ req'.id \notin DOMAIN workouts)
             => (workouts' = workouts /\ meals' = meals /\ resp' = redirect)
          /\ (/\ req'.route \in {"edit_meal", "update_meal", "delete_meal"}
              /\ req'.id \notin DOMAIN meals)
             => (workouts' = workouts /\ meals' = meals /\ resp' = redirect)
          /\ req'.route = "delete_workout" => req'.id \notin DOMAIN workouts'
          /\ req'.route = "delete_meal" => req'.id \notin DOMAIN meals']_vars

\* C6 witness: a delete of an id whose row an earlier request deleted, with
\* another row in the store that it leaves alone
C6_Witness ==
    /\ req.route = "delete_workout"
    /\ req.id < nextWorkoutId
    /\ req.id \notin DOMAIN workouts
    /\ workouts # <<>>
    /\ resp = redirect

\* what reading the sets of a workout back gives: the row has no such column
ReadSets(w) == IF "sets" \in DOMAIN w THEN Some(w.sets) ELSE None

\* an integer column as a form submits it
Submitted(n) == IF n = None THEN None ELSE Some(str(n[1]))

C9_IdentityImmutable ==
    [][/\ \A id \in DOMAIN workouts \cap DOMAIN workouts' :
             workouts'[id].timestamp = workouts[id].timestamp
       /\ \A id \in DOMAIN workouts' \ DOMAIN workouts :
             id = nextWorkoutId /\ nextWorkoutId' > id /\ workouts'[id].timestamp = now
       /\ \A id \in DOMAIN meals \cap DOMAIN meals' :
             meals'[id].timestamp = meals[id].timestamp
       /\ \A id \in DOMAIN meals' \ DOMAIN meals :
             id = nextMealId /\ nextMealId' > id /\ meals'[id].timestamp = now
       /\ nextWorkoutId' >= nextWorkoutId /\ nextMealId' >= nextMealId
       /\ (RequestStep /\ req'.route = "index") => (workouts' = workouts /\ meals' = meals)
       /\ (RequestStep /\ req'.route = "update_workout") =>
             /\ meals' = meals
             /\ DOMAIN workouts' = DOMAIN workouts
             /\ \A id \in DOMAIN workouts : id # req'.id => workouts'[id] = workouts[id]
       /\ (RequestStep /\ req'.route = "update_meal") =>
             /\ workouts' = workouts
             /\ DOMAIN meals' = DOMAIN meals
             /\ \A id \in DOMAIN meals : id # req'.id => meals'[id] = meals[id]]_vars

\* C9 witness: GET / has shown a workout and a meal, inserted earlier, at a
\* local time that is not the stored timestamp
C9_Witness ==
    /\ req.route = "index"
    /\ Len(view.workouts) > 0
    /\ Len(view.meals_with_fasting_time) > 0
    /\ LET w == view.workouts[1]
           m == view.meals_with_fasting_time[1].meal
       IN /\ w.timestamp.wall # workouts[w.id].timestamp
          /\ m.timestamp.wall # meals[m.id].timestamp
          /\ workouts[w.id].timestamp < now

\* C10: add_workout with the exercise name missing or empty, or with reps
\* missing or not a string of the digits 0..9, and add_meal with the name
\* missing or empty, insert nothing, change no row and redirect to the index.
C10_InvalidCreateRejected ==
    [][RequestStep =>
          /\ (/\ req'.route = "add_workout"
              /\ ~truthy(req'.form.exercise_name) \/ ~DecimalString(req'.form.reps))
             => (workouts' = workouts /\ meals' = meals /\ resp' = redirect)
          /\ (req'.route = "add_meal" /\ ~truthy(req'.form.meal_name))
             => (workouts' = workouts /\ meals' = meals /\ resp' = redirect)]_vars

----------------------------------------------------------------------------
(* SpecSummary: the workout routes and GET / over two days *)

MaxSummaryRows == 3
SummaryClockHours == 20

SummaryIds == 1..MaxSummaryRows

\* names that sort against their insertion order, the empty name an update
\* can store, reps that add up, and the zero reps the handlers let through
SummaryForms ==
    {WorkoutForm(Some(str_Row), Some(<<"8">>)),
     WorkoutForm(Some(str_Squat), Some(<<"8">>)),
     WorkoutForm(Some(str_Squat), Some(<<"1", "2">>)),
     WorkoutForm(Some(str_Squat), Some(<<"0">>))}

\* an update that empties the name and changes the reps
SummaryUpdateForms == {WorkoutForm(Some(<<>>), Some(<<"1", "2">>))}

InitSummary ==
    /\ InitStore
    /\ now = 0
    /\ server_tz \in {0, YerevanUtcOffset}

NextSummary ==
    \/ nextWorkoutId <= MaxSummaryRows /\ \E form \in SummaryForms : add_workout(form)
    \/ \E id \in SummaryIds, form \in SummaryUpdateForms : update_workout(id, form)
    \/ \E id \in SummaryIds : delete_workout(id)
    \/ index
    \/ now + 10 * SecondsPerHour <= SummaryClockHours * SecondsPerHour
       /\ Tick(10 * SecondsPerHour)

SpecSummary == InitSummary /\ [][NextSummary]_vars


\* the workouts of today: those whose Yerevan calendar day is the day of
\* date.today()
TodaysIds ==
    {id \in DOMAIN workouts :
        (workouts[id].timestamp + YerevanUtcOffset) \div SecondsPerDay = date_today}

RECURSIVE SumReps(_)
SumReps(ids) ==
    IF ids = {} THEN 0
    ELSE LET id == CHOOSE x \in ids : TRUE
         IN workouts[id].reps + SumReps(ids \ {id})

RECURSIVE SumTotals(_)
SumTotals(pairs) == IF pairs = <<>> THEN 0 ELSE pairs[1][2] + SumTotals(Tail(pairs))

\* today's total of one exercise
TotalOf(name) == SumReps({id \in TodaysIds : workouts[id].exercise_name = name})

\* C1: the daily summary of GET / agrees with today's entries.  The table's
\* total is the total reps of today's entries and each pair carries its
\* exercise's total; the table is in ascending order of name; the chart
\* labels are in the order the scan first meets them; chart_data[i] is the
\* total of chart_labels[i]; table and chart list every exercise of today
\* exactly once.
C1_SummaryConsistent ==
    req.route = "index" =>
        LET table == view.sorted_summary
            labels == view.chart_labels
            scanned == SelectSeq(view.workouts, LAMBDA w : w.id \in TodaysIds)
            names == {workouts[id].exercise_name : id \in TodaysIds}
            first(name) ==
                CHOOSE i \in 1..Len(scanned) :
                    /\ scanned[i].exercise_name = name
                    /\ \A j \in 1..(i - 1) : scanned[j].exercise_name # name
        IN /\ {scanned[i].id : i \in 1..Len(scanned)} = TodaysIds
           /\ Len(scanned) = Cardinality(TodaysIds)
           /\ SumTotals(table) = SumReps(TodaysIds)
           /\ \A i \in 1..Len(table) : table[i][2] = TotalOf(table[i][1])
           /\ \A i \in 1..(Len(table) - 1) : StrLess(table[i][1], table[i + 1][1])
           /\ \A i, j \in 1..Len(labels) : i < j => first(labels[i]) < first(labels[j])
           /\ Len(view.chart_data) = Len(labels)
           /\ \A i \in 1..Len(labels) : view.chart_data[i] = TotalOf(labels[i])
           /\ {labels[i] : i \in 1..Len(labels)} = names
           /\ {table[i][1] : i \in 1..Len(table)} = names
           /\ Len(labels) = Cardinality(names)
           /\ Len(table) = Cardinality(names)

\* C1 witness: GET / over three workouts, one of them not of today; Squat is
\* met before Row, and the table lists Row before Squat
C1_Witness ==
    /\ req.route = "index"
    /\ Len(view.workouts) = 3
    /\ Cardinality(TodaysIds) = 2
    /\ view.chart_labels = <<str_Squat, str_Row>>
    /\ view.chart_data = <<12, 8>>
    /\ view.sorted_summary = <<<<str_Row, 8>>, <<str_Squat, 12>>>>

----------------------------------------------------------------------------
(* SpecExample: the day of the worked example, from 09:00 Yerevan time *)

ExampleRows == 3
ExampleClockHours == 16

\* ("Squat", sets 5, reps 10), ("Squat", sets 3, reps 8), ("Row", sets 4, reps 12)
ExampleForms ==
    {WorkoutFormSets(Some(str_Squat), Some(<<"5">>), Some(<<"1", "0">>)),
     WorkoutFormSets(Some(str_Squat), Some(<<"3">>), Some(<<"8">>)),
     WorkoutFormSets(Some(str_Row), Some(<<"4">>), Some(<<"1", "2">>))}

InitExample ==
    /\ InitStore
    /\ now = 5 * SecondsPerHour
    /\ server_tz \in {0, YerevanUtcOffset}

NextExample ==
    \/ nextWorkoutId <= ExampleRows /\ \E form \in ExampleForms : add_workout(form)
    \/ index
    \/ \E hours \in {3, 5} :
          /\ now + hours * SecondsPerHour <= ExampleClockHours * SecondsPerHour
          /\ Tick(hours * SecondsPerHour)

SpecExample == InitExample /\ [][NextExample]_vars

\* Squat at 09:00, Row at 12:00 and Squat at 17:00, Yerevan time
ExampleStore ==
    <<[exercise_name |-> str_Squat, reps |-> 10, timestamp |-> 5 * SecondsPerHour],
      [exercise_name |-> str_Row, reps |-> 12, timestamp |-> 8 * SecondsPerHour],
      [exercise_name |-> str_Squat, reps |-> 8, timestamp |-> 13 * SecondsPerHour]>>

ExampleShown ==
    /\ req.route = "index"
    /\ workouts = ExampleStore
    /\ TodaysIds = {1, 2, 3}

\* C8 as stated: for the example's entries the table is [("Row", 48),
\* ("Squat", 74)], the chart labels ["Squat", "Row"] and the chart values
\* [74, 48]: an entry counts sets x reps.
C8_ExampleSetsTimesReps ==
    ExampleShown =>
        /\ view.sorted_summary = <<<<str_Row, 48>>, <<str_Squat, 74>>>>
        /\ view.chart_labels = <<str_Squat, str_Row>>
        /\ view.chart_data = <<74, 48>>

\* C8 amended: for the example's entries the table is [("Row", 12),
\* ("Squat", 18)], the chart labels ["Squat", "Row"] and the chart values
\* [18, 12]: an entry counts its reps, the submitted sets are not stored.
C8_ExampleReps ==
    ExampleShown =>
        /\ view.sorted_summary = <<<<str_Row, 12>>, <<str_Squat, 18>>>>
        /\ view.chart_labels = <<str_Squat, str_Row>>
        /\ view.chart_data = <<18, 12>>

\* C8 witness: GET / on the day of the example's three entries
C8_Witness == ExampleShown /\ resp = render_template("index.html")

----------------------------------------------------------------------------
(* SpecFasting: the meal routes and GET / over meals hours and days apart *)

MaxFastingMeals == 3
FastingClockHours == 50

FastingForms ==
    {MealForm(Some(str_Soup), Some(<<"3", "5">>), SomeComponents),
     MealForm(Some(str_egg), None, NoComponents)}

\* 14 h 32 min 29 s, and 1 d 1 h 1 min 1 s
FastingSteps ==
    {14 * SecondsPerHour + 32 * SecondsPerMinute + 29,
     SecondsPerDay + SecondsPerHour + SecondsPerMinute + 1}

InitFasting ==
    /\ InitStore
    /\ now = 0
    /\ server_tz = 0

NextFasting ==
    \/ nextMealId <= MaxFastingMeals /\ \E form \in FastingForms : add_meal(form)
    \/ \E id \in 1..MaxFastingMeals, form \in FastingForms : update_meal(id, form)
    \/ \E id \in 1..MaxFastingMeals : delete_meal(id)
    \/ index
    \/ \E step \in FastingSteps :
          /\ now + step <= FastingClockHours * SecondsPerHour
          /\ Tick(step)

SpecFasting == InitFasting /\ [][NextFasting]_vars

\* a duration of s seconds as the formatting rule words it
Rendered(s) ==
    LET days == s \div SecondsPerDay
        hours == (s % SecondsPerDay) \div SecondsPerHour
        minutes == (s % SecondsPerHour) \div SecondsPerMinute
    IN IF days > 0
       THEN str(days) \o <<"d", " ">> \o str(hours) \o <<"h", " ">> \o str(minutes) \o <<"m">>
       ELSE str(hours) \o <<"h", " ">> \o str(minutes) \o <<"m">>

\* C2: when the meals' timestamps differ pairwise, GET / lists every meal,
\* the most recent first; each meal but the earliest carries the formatted
\* time since the meal before it, the earliest carries none; with no meal
\* or one meal the page still renders.
C2_FastingAnnotation ==
    (/\ req.route = "index"
     /\ \A a, b \in DOMAIN meals : a # b => meals[a].timestamp # meals[b].timestamp)
    =>
        LET shown == view.meals_with_fasting_time
            N == Cardinality(DOMAIN meals)
            t(k) == meals[shown[k].meal.id].timestamp
        IN /\ resp = render_template("index.html")
           /\ Len(shown) = N
           /\ {shown[k].meal.id : k \in 1..N} = DOMAIN meals
           /\ \A k \in 1..(N - 1) : t(k) > t(k + 1)
           /\ \A k \in 1..(N - 1) : shown[k].fasted_time = Some(Rendered(t(k) - t(k + 1)))
           /\ N > 0 => shown[N].fasted_time = None

\* C2 witness: three meals, 14 h 32 min 29 s and then 1 d 1 h 1 min 1 s apart
C2_Witness ==
    /\ req.route = "index"
    /\ Len(view.meals_with_fasting_time) = 3
    /\ view.meals_with_fasting_time[1].fasted_time
           = Some(<<"1", "d", " ", "1", "h", " ", "1", "m">>)
    /\ view.meals_with_fasting_time[2].fasted_time
           = Some(<<"1", "4", "h", " ", "3", "2", "m">>)
    /\ view.meals_with_fasting_time[3].fasted_time = None

----------------------------------------------------------------------------
(* SpecFormat: format_timedelta on every duration up to MaxSeconds *)

MaxSeconds == 180000

InitFormat ==
    /\ InitTables
    /\ now = 0
    /\ server_tz = 0
    /\ td \in {None} \cup {Some(s) : s \in 0..MaxSeconds}
    /\ formatted = None

Format ==
    /\ formatted = None
    /\ formatted' = Some(format_timedelta(td))
    /\ UNCHANGED <<workouts, meals, nextWorkoutId, nextMealId, now, server_tz, req, resp,
                   view, td>>

SpecFormat == InitFormat /\ [][Format]_vars

\* C3: for a duration of s >= 0 whole seconds format_timedelta gives
\* days = s div 86400, hours = (s mod 86400) div 3600 and minutes =
\* (s mod 3600) div 60, as "{days}d {hours}h {minutes}m" when days > 0 and
\* "{hours}h {minutes}m" otherwise; the seconds left never round the minutes
\* up (14 h 32 min 29 s gives "14h 32m"); hours < 24 and minutes < 60.
C3_FormatTimedelta ==
    (td # None /\ formatted # None) =>
        LET s == td[1]
            days == s \div 86400
            hours == (s % 86400) \div 3600
            minutes == (s % 3600) \div 60
        IN /\ formatted[1] = Rendered(s)
           /\ td_days(s) = days /\ td_hours(s) = hours /\ td_minutes(s) = minutes
           /\ hours < 24 /\ minutes < 60
           /\ days * 86400 + hours * 3600 + minutes * 60 <= s
           /\ s < days * 86400 + hours * 3600 + (minutes + 1) * 60
           /\ s = 52349 => formatted[1] = <<"1", "4", "h", " ", "3", "2", "m">>

\* C3 witness: 14 h 32 min 29 s has been formatted as "14h 32m"
C3_Witness ==
    /\ td = Some(14 * 3600 + 32 * 60 + 29)
    /\ formatted = Some(<<"1", "4", "h", " ", "3", "2", "m">>)

====
